---- MODULE Spec2Model ----
(***************************************************************************)
(* candle-einops: the Backend implementation for candle tensors            *)
(* (src/src/backend/candle.rs) and the Operation enum (src/src/lib.rs).    *)
(*                                                                         *)
(* A tensor is a record [shape, data]: shape is the sequence of axis       *)
(* lengths (axis 0 first), data the elements in row-major order.  Axis     *)
(* indices are 0-based as in the source; TLA+ sequences are 1-based, so    *)
(* axis a of a shape s is s[a + 1].  Element values are exact rationals    *)
(* <<numerator, denominator>>; floating-point rounding is not modelled.    *)
(***************************************************************************)
EXTENDS Integers, Sequences, FiniteSets

VARIABLES
    tensor,           \* self: the tensor reduce_axes/add_axes/... is called on
    pc,               \* "idle" | "reduce" | "add" | "done" | "panicked"
    op,               \* the operation called: "" before the call
    axes_operations,  \* the caller's &mut [(usize, Operation)] slice
    args,             \* the arguments passed by shared reference or by value
    entry,            \* the caller's tensor and arguments as they were at the call
    output,           \* the local `output` / the returned tensor
    i,                \* number of loop iterations done
    repeats,          \* add_axes: the local `repeats` vector
    origin,           \* for each axis of `output`, the input axis it is (-1: inserted)
    err               \* cause of the panic, "" if none

vars == <<tensor, pc, op, axes_operations, args, entry, output, i, repeats, origin, err>>

----------------------------------------------------------------------------
(* Bounds of the model *)

MaxRank == 3      \* input tensors have rank 0..MaxRank
MaxDim == 2       \* axis lengths of input tensors are 1..MaxDim
MaxNumel == 8     \* input tensors have at most MaxNumel elements
MaxOps == 2       \* reduce_axes lists have at most MaxOps entries
MaxPairs == 2     \* add_axes lists have at most MaxPairs entries
MaxLen == 2       \* requested lengths of inserted axes are 1..MaxLen
MaxTarget == 5    \* add_axes is called with rank + number of pairs <= MaxTarget

----------------------------------------------------------------------------
(* Sequences *)

SeqsUpTo(S, n) == UNION {[1..k -> S] : k \in 0..n}

Range(s) == {s[k] : k \in 1..Len(s)}

Reverse(s) == [k \in 1..Len(s) |-> s[Len(s) + 1 - k]]

\* s without the element at 0-based position a
RemoveAt(s, a) == [k \in 1..(Len(s) - 1) |-> IF k <= a THEN s[k] ELSE s[k + 1]]

\* s with v inserted so that it ends up at 0-based position a
InsertAt(s, a, v) ==
    [k \in 1..(Len(s) + 1) |-> IF k <= a THEN s[k] ELSE IF k = a + 1 THEN v ELSE s[k - 1]]

RECURSIVE Product(_)
Product(s) == IF s = <<>> THEN 1 ELSE Head(s) * Product(Tail(s))

RECURSIVE Flatten(_)
Flatten(ss) == IF ss = <<>> THEN <<>> ELSE Head(ss) \o Flatten(Tail(ss))

----------------------------------------------------------------------------
(* Element values: exact rationals <<n, d>> with d > 0, in lowest terms *)

RECURSIVE GCD(_, _)
GCD(a, b) == IF b = 0 THEN a ELSE GCD(b, a % b)

Abs(n) == IF n < 0 THEN -n ELSE n

Rat(n, d) == LET g == GCD(Abs(n), d) IN IF g = 0 THEN <<0, 1>> ELSE <<n \div g, d \div g>>

RAdd(x, y) == Rat(x[1] * y[2] + y[1] * x[2], x[2] * y[2])

RLess(x, y) == x[1] * y[2] < y[1] * x[2]

RDivInt(x, n) == Rat(x[1], x[2] * n)

----------------------------------------------------------------------------
(* Shapes and row-major indexing *)

Rank(t) == Len(t.shape)

Numel(shape) == Product(shape)

\* stride of axis a (0-based) of a contiguous row-major layout
Stride(shape, a) == Product(SubSeq(shape, a + 2, Len(shape)))

Strides(shape) == [a \in 1..Len(shape) |-> Stride(shape, a - 1)]

\* the coordinates (0-based, one per axis) of the element at 0-based offset k
\* of a row-major layout with the given strides
UnravelBy(k, shape, strides) == [a \in 1..Len(shape) |-> (k \div strides[a]) % shape[a]]

Unravel(k, shape) == UnravelBy(k, shape, Strides(shape))

RECURSIVE Dot(_, _)
Dot(idx, strides) ==
    IF idx = <<>> THEN 0 ELSE Head(idx) * Head(strides) + Dot(Tail(idx), Tail(strides))

\* the 0-based offset of the element at coordinates idx
Ravel(idx, shape) == Dot(idx, Strides(shape))

\* element of t at coordinates idx
At(t, idx) == t.data[Ravel(idx, t.shape) + 1]

Shapes ==
    {s \in SeqsUpTo(1..MaxDim, MaxRank) : Numel(s) <= MaxNumel}

\* distinct, unordered element values (a fixed literal input, as in the tests)
Fill(shape) == [k \in 1..Numel(shape) |-> <<((k - 1) * 37 + 11) % 97, 1>>]

Tensors == {[shape |-> s, data |-> Fill(s)] : s \in Shapes}

NoTensor == [shape |-> <<>>, data |-> <<>>]

Ok(t) == [ok |-> TRUE, t |-> t, err |-> ""]

Fail(e) == [ok |-> FALSE, t |-> NoTensor, err |-> e]

----------------------------------------------------------------------------
(* The candle tensor operations the backend calls.  Each returns Ok(tensor)  *)
(* or Fail(cause); the backend unwraps the result, so a Fail is a panic.     *)

\* Tensor::reshape: same elements in the same order under a new shape
Reshape(t, shape) ==
    IF Numel(shape) = Numel(t.shape)
    THEN Ok([shape |-> shape, data |-> t.data])
    ELSE Fail("ShapeMismatch")

IsPermutation(axes, rank) ==
    /\ Len(axes) = rank
    /\ \A a \in 0..(rank - 1) : \E k \in 1..Len(axes) : axes[k] = a

PermuteInverse(t, axes) ==
    IF ~IsPermutation(axes, Rank(t))
    THEN Fail("InvalidPermutation")
    ELSE LET shape == [k \in 1..Len(axes) |->
                          t.shape[(CHOOSE j \in 1..Len(axes) : axes[j] = k - 1)]]
             strides == [k \in 1..Len(axes) |->
                          Stride(t.shape, (CHOOSE j \in 1..Len(axes) : axes[j] = k - 1) - 1)]
         IN  Ok([shape |-> shape,
                 data |-> [k \in 1..Numel(shape) |->
                              t.data[Dot(UnravelBy(k - 1, shape, Strides(shape)), strides) + 1]]])

\* Tensor::permute: output axis k takes the length and the stride of input
\* axis axes[k]; the elements are then read through the permuted strides
Permute(t, axes) ==
    IF ~IsPermutation(axes, Rank(t))
    THEN Fail("InvalidPermutation")
    ELSE LET shape == [k \in 1..Len(axes) |-> t.shape[axes[k] + 1]]
             strides == [k \in 1..Len(axes) |-> Stride(t.shape, axes[k])]
         IN  Ok([shape |-> shape,
                 data |-> [k \in 1..Numel(shape) |->
                              t.data[Dot(UnravelBy(k - 1, shape, Strides(shape)), strides) + 1]]])

RECURSIVE FoldMin(_)
FoldMin(vals) ==
    IF Len(vals) = 1 THEN vals[1]
    ELSE LET m == FoldMin(Tail(vals)) IN IF RLess(m, Head(vals)) THEN m ELSE Head(vals)

RECURSIVE FoldMax(_)
FoldMax(vals) ==
    IF Len(vals) = 1 THEN vals[1]
    ELSE LET m == FoldMax(Tail(vals)) IN IF RLess(Head(vals), m) THEN m ELSE Head(vals)

RECURSIVE FoldSum(_)
FoldSum(vals) == IF vals = <<>> THEN <<0, 1>> ELSE RAdd(Head(vals), FoldSum(Tail(vals)))

\* the values of t along axis `axis`, from the element at offset `first` on
Lane(t, axis, first) ==
    [c \in 1..t.shape[axis + 1] |-> t.data[first + (c - 1) * Stride(t.shape, axis) + 1]]

Mean(vals) == RDivInt(FoldSum(vals), Len(vals))

\* what min / max / sum / mean make of the values of one lane
Combine(kind, vals) ==
    CASE kind = "Min" -> FoldMin(vals)
      [] kind = "Max" -> FoldMax(vals)
      [] kind = "Sum" -> FoldSum(vals)
      [] kind = "Mean" -> Mean(vals)

\* the reduced elements: for each position of the other axes, the lane that
\* starts where the reduced axis has coordinate 0
Reduced(t, axis, kind, shape) ==
    LET from == RemoveAt(Strides(t.shape), axis)
        to == Strides(shape)
    IN  [k \in 1..Numel(shape) |->
            Combine(kind, Lane(t, axis, Dot(UnravelBy(k - 1, shape, to), from)))]

ReduceDimKeep(t, axis, kind) ==
    IF axis >= Rank(t)
    THEN Fail("DimOutOfRange")
    ELSE Ok([shape |-> [t.shape EXCEPT ![axis + 1] = 1],
             data |-> Reduced(t, axis, kind, RemoveAt(t.shape, axis))])

\* Tensor::min / max / sum / mean over one axis, without keepdim: the axis
\* is removed and each output element combines one lane of the input
ReduceDim(t, axis, kind) ==
    IF axis >= Rank(t)
    THEN Fail("DimOutOfRange")
    ELSE Ok([shape |-> RemoveAt(t.shape, axis),
             data |-> Reduced(t, axis, kind, RemoveAt(t.shape, axis))])

\* Tensor::unsqueeze: a new axis of length 1 at position pos <= rank
Unsqueeze(t, pos) ==
    IF pos > Rank(t)
    THEN Fail("DimOutOfRange")
    ELSE Ok([shape |-> InsertAt(t.shape, pos, 1), data |-> t.data])

\* Tensor::cat of n copies of t along axis a: every block of the axes from a
\* on is written n times in a row
CatCopies(t, n, a) ==
    LET chunk == Product(SubSeq(t.shape, a + 1, Len(t.shape)))
        nblocks == Numel(t.shape) \div chunk
        block(b) == SubSeq(t.data, (b - 1) * chunk + 1, b * chunk)
    IN  [shape |-> [t.shape EXCEPT ![a + 1] = @ * n],
         data |-> Flatten([b \in 1..nblocks |-> Flatten([c \in 1..n |-> block(b)])])]

RECURSIVE RepeatFrom(_, _, _)
RepeatFrom(inp, reps, idx) ==
    IF idx >= Len(reps) THEN inp
    ELSE RepeatFrom(IF reps[idx + 1] > 1 THEN CatCopies(inp, reps[idx + 1], idx) ELSE inp,
                    reps, idx + 1)

\* number of leading axes of length 1 Tensor::repeat adds to a tensor of
\* rank `rank` when the repeat vector is longer
RepeatPad(rank, reps) == IF rank < Len(reps) THEN Len(reps) - rank ELSE 0

\* Tensor::repeat: the rank is extended with leading 1s up to Len(reps), then
\* the tensor is concatenated reps[idx] times along each axis idx < Len(reps)
Repeat(t, reps) ==
    LET inp == [shape |-> [k \in 1..RepeatPad(Rank(t), reps) |-> 1] \o t.shape,
                data |-> t.data]
    IN  Ok(RepeatFrom(inp, reps, 0))

----------------------------------------------------------------------------
(* src/src/lib.rs: enum Operation *)

Operation == {"Min", "Max", "Sum", "Mean", "Prod"}

\* the variants the match in reduce_axes has an arm for
MatchArms == {"Min", "Max", "Sum", "Mean"}

----------------------------------------------------------------------------
(* reduce_axes *)

\* a pair is <<axis, operation>>
Axis(pair) == pair[1]

RECURSIVE InsertSorted(_, _)
InsertSorted(sorted, pair) ==
    IF sorted = <<>> THEN <<pair>>
    ELSE IF Axis(sorted[Len(sorted)]) <= Axis(pair) THEN Append(sorted, pair)
    ELSE Append(InsertSorted(SubSeq(sorted, 1, Len(sorted) - 1), pair), sorted[Len(sorted)])

RECURSIVE SortFrom(_, _)
SortFrom(sorted, rest) ==
    IF rest = <<>> THEN sorted ELSE SortFrom(InsertSorted(sorted, Head(rest)), Tail(rest))

SortByAxisNone(list) == list

SortByAxisUnstable(list) == SortFrom(<<>>, Reverse(list))

RECURSIVE Dedup(_)
Dedup(list) ==
    IF Len(list) <= 1 THEN list
    ELSE IF Axis(list[1]) = Axis(list[2]) THEN Dedup(Tail(list))
    ELSE <<Head(list)>> \o Dedup(Tail(list))

SortByAxisDedup(list) == Dedup(SortFrom(<<>>, list))

\* axes_operations.sort_by_key(|(axis, _)| *axis): a stable sort, ascending
SortByAxis(list) == SortFrom(<<>>, list)

ProcessingOrderForward(list) == list

\* axes_operations.iter().rev()
ProcessingOrder(list) == Reverse(list)

\* the body of the loop: the match on the operation, unwrapped
ReduceArm(t, pair) ==
    IF pair[2] \in MatchArms
    THEN ReduceDim(t, pair[1], pair[2])
    ELSE Fail("NoMatchArm")

RECURSIVE ReduceLoop(_, _)
ReduceLoop(t, todo) ==
    IF todo = <<>> THEN Ok(t)
    ELSE LET r == ReduceArm(t, Head(todo))
         IN  IF r.ok THEN ReduceLoop(r.t, Tail(todo)) ELSE r

\* the whole of reduce_axes as a function of the tensor and the list passed
ReduceRun(t, list) == ReduceLoop(t, ProcessingOrder(SortByAxis(list)))

----------------------------------------------------------------------------
(* The caller: one tensor, one call of one of the four operations *)

NoArgs == [shape |-> <<>>, axes |-> <<>>, naxes |-> 0, pos2len |-> <<>>]

AxesOf(t) == [k \in 1..Rank(t) |-> k - 1]

\* argument values the caller may pass

ReshapeArgs(t) == Shapes \cup {<<Numel(t.shape)>>}

TransposeArgs == SeqsUpTo(0..(MaxRank - 1), MaxRank)

\* the variants in the order of the enum
OperationSeq == <<"Min", "Max", "Sum", "Mean", "Prod">>

\* operations of a list of n pairs: one variant throughout, or the variants
\* taken in turn from some start with a step of 1 or 2
OperationLists(n) ==
    {[k \in 1..n |-> OperationSeq[1 + ((s + (k - 1) * d) % Len(OperationSeq))]] :
        s \in 1..Len(OperationSeq), d \in 0..2}

\* lists of pairs with axes below MaxRank (out of range for smaller tensors),
\* in any order and with repetitions
ReduceArgs ==
    UNION {
        {[k \in 1..n |-> <<axes[k], ops[k]>>] :
            axes \in [1..n -> 0..(MaxRank - 1)], ops \in OperationLists(n)} :
        n \in 0..MaxOps}

\* requested lengths: going round 1..MaxLen from some start, or all MaxLen
LengthLists(n) ==
    {[k \in 1..n |-> 1 + ((s + k) % MaxLen)] : s \in 1..MaxLen}
    \cup {[k \in 1..n |-> MaxLen]}

\* n pairs with distinct positions below rank + n, in any order, and a target
\* rank that is one too small, right, or one too large
AddArgs(t) ==
    UNION {
        {<<naxes, [k \in 1..n |-> <<pos[k], lens[k]>>]>> :
            naxes \in {m \in {Rank(t) + n - 1, Rank(t) + n, Rank(t) + n + 1} : m >= 0},
            pos \in {q \in [1..n -> 0..(Rank(t) + n - 1)] :
                        \A j, k \in 1..n : q[j] = q[k] => j = k},
            lens \in LengthLists(n)} :
        n \in {m \in 0..MaxPairs : Rank(t) + m <= MaxTarget}}

Init ==
    /\ tensor \in Tensors
    /\ pc = "idle"
    /\ op = ""
    /\ axes_operations = <<>>
    /\ args = NoArgs
    /\ entry = [tensor |-> NoTensor, axes_operations |-> <<>>, args |-> NoArgs]
    /\ output = NoTensor
    /\ i = 0
    /\ repeats = <<>>
    /\ origin = <<>>
    /\ err = ""

\* what the caller holds when the call starts
Enter(name, list, a) ==
    /\ op' = name
    /\ args' = a
    /\ entry' = [tensor |-> tensor, axes_operations |-> list, args |-> a]
    /\ i' = 0
    /\ UNCHANGED tensor

\* the call ends: the unwrapped result is returned, or the unwrap panics
Finish(r) ==
    /\ pc' = IF r.ok THEN "done" ELSE "panicked"
    /\ output' = r.t
    /\ err' = r.err

\* fn reshape(self, shape: &[usize])
reshape ==
    /\ pc = "idle"
    /\ \E shape \in ReshapeArgs(tensor) :
        /\ Enter("reshape", <<>>, [NoArgs EXCEPT !.shape = shape])
        /\ Finish(Reshape(tensor, shape))
        /\ origin' = <<>>
        /\ UNCHANGED <<axes_operations, repeats>>

\* fn transpose(self, axes: &[usize])
transpose ==
    /\ pc = "idle"
    /\ \E axes \in TransposeArgs :
        /\ Enter("transpose", <<>>, [NoArgs EXCEPT !.axes = axes])
        /\ Finish(Permute(tensor, axes))
        /\ origin' = IF IsPermutation(axes, Rank(tensor)) THEN axes ELSE <<>>
        /\ UNCHANGED <<axes_operations, repeats>>

\* reduce_axes up to the loop: the clone of self and the sort of the caller's slice
reduce_axes ==
    /\ pc = "idle"
    /\ \E list \in ReduceArgs :
        /\ Enter("reduce_axes", list, NoArgs)
        /\ output' = tensor
        /\ origin' = AxesOf(tensor)
        /\ axes_operations' = SortByAxis(list)
        /\ pc' = "reduce"
        /\ UNCHANGED <<repeats, err>>

\* one iteration of the loop of reduce_axes
reduce_axes_iter ==
    /\ pc = "reduce"
    /\ i < Len(axes_operations)
    /\ LET pair == ProcessingOrder(axes_operations)[i + 1]
           r == ReduceArm(output, pair)
       IN  /\ output' = r.t
           /\ err' = r.err
           /\ pc' = IF r.ok THEN "reduce" ELSE "panicked"
           /\ origin' = IF r.ok THEN RemoveAt(origin, Axis(pair)) ELSE <<>>
    /\ i' = i + 1
    /\ UNCHANGED <<tensor, op, axes_operations, args, entry, repeats>>

\* the loop of reduce_axes is over: output is returned
reduce_axes_return ==
    /\ pc = "reduce"
    /\ i = Len(axes_operations)
    /\ pc' = "done"
    /\ UNCHANGED <<tensor, op, axes_operations, args, entry, output, i, repeats, origin, err>>

\* add_axes up to the loop: the clone of self and vec![1; naxes]
add_axes ==
    /\ pc = "idle"
    /\ \E a \in AddArgs(tensor) :
        /\ Enter("add_axes", <<>>, [NoArgs EXCEPT !.naxes = a[1], !.pos2len = a[2]])
        /\ output' = tensor
        /\ origin' = AxesOf(tensor)
        /\ repeats' = [k \in 1..a[1] |-> 1]
        /\ pc' = "add"
        /\ UNCHANGED <<axes_operations, err>>

\* one iteration of the loop of add_axes: unsqueeze, then repeats[axis_pos] = axis_len
add_axes_iter ==
    /\ pc = "add"
    /\ i < Len(args.pos2len)
    /\ LET axis_pos == args.pos2len[i + 1][1]
           axis_len == args.pos2len[i + 1][2]
           r == Unsqueeze(output, axis_pos)
           inbounds == axis_pos < Len(repeats)
       IN  /\ output' = IF inbounds THEN r.t ELSE NoTensor
           /\ err' = IF ~r.ok THEN r.err ELSE IF ~inbounds THEN "IndexOutOfBounds" ELSE ""
           /\ pc' = IF r.ok /\ inbounds THEN "add" ELSE "panicked"
           /\ origin' = IF r.ok /\ inbounds THEN InsertAt(origin, axis_pos, -1) ELSE <<>>
           /\ repeats' = IF r.ok /\ inbounds
                         THEN [repeats EXCEPT ![axis_pos + 1] = axis_len]
                         ELSE repeats
    /\ i' = i + 1
    /\ UNCHANGED <<tensor, op, axes_operations, args, entry>>

\* the loop of add_axes is over: output.repeat(repeats) is returned
add_axes_return ==
    /\ pc = "add"
    /\ i = Len(args.pos2len)
    /\ Finish(Repeat(output, repeats))
    /\ origin' = [k \in 1..RepeatPad(Rank(output), repeats) |-> -1] \o origin
    /\ UNCHANGED <<tensor, op, axes_operations, args, entry, i, repeats>>

Next ==
    \/ reshape
    \/ transpose
    \/ reduce_axes
    \/ reduce_axes_iter
    \/ reduce_axes_return
    \/ add_axes
    \/ add_axes_iter
    \/ add_axes_return

Spec == Init /\ [][Next]_vars

----------------------------------------------------------------------------
(* Vocabulary of the properties *)

Returned == pc = "done"

Panicked == pc = "panicked"

Ended == Returned \/ Panicked

\* the outcome of the call in the form the tensor operations use
Outcome == [ok |-> Returned, t |-> output, err |-> err]

AxesIn(list) == {Axis(list[k]) : k \in 1..Len(list)}

UniqueAxes(list) == \A j, k \in 1..Len(list) : Axis(list[j]) = Axis(list[k]) => j = k

InRange(list, rank) == \A k \in 1..Len(list) : Axis(list[k]) < rank

\* the elements of s whose 0-based positions are not in `removed`, in order
RECURSIVE WithoutFrom(_, _, _)
WithoutFrom(s, removed, a) ==
    IF a >= Len(s) THEN <<>>
    ELSE (IF a \in removed THEN <<>> ELSE <<s[a + 1]>>) \o WithoutFrom(s, removed, a + 1)

Without(s, removed) == WithoutFrom(s, removed, 0)

Reorderings(list) ==
    {[k \in 1..Len(list) |-> list[p[k]]] :
        p \in {q \in [1..Len(list) -> 1..Len(list)] : Range(q) = 1..Len(list)}}

Offsets(t) == 0..(Numel(t.shape) - 1)

\* reduce_axes was called with unique in-range axes
ReduceWellFormed ==
    /\ op = "reduce_axes"
    /\ UniqueAxes(entry.axes_operations)
    /\ InRange(entry.axes_operations, Rank(entry.tensor))

----------------------------------------------------------------------------
\* C1: for a tensor of rank r >= 1 and a list of unique axes in [0, r) with
\* operations among Min, Max, Sum, Mean, reduce_axes does not fail and returns
\* a tensor whose shape is the input shape with exactly the listed axes
\* removed, the other axis lengths in their original order.
C1_ReduceShape ==
    (/\ ReduceWellFormed
     /\ Rank(entry.tensor) >= 1
     /\ \A k \in 1..Len(entry.axes_operations) : entry.axes_operations[k][2] \in MatchArms)
    => /\ ~Panicked
       /\ Returned =>
            output.shape = Without(entry.tensor.shape, AxesIn(entry.axes_operations))

C1_Witness ==
    /\ Returned
    /\ ReduceWellFormed
    /\ entry.tensor.shape = <<2, 1, 2>>
    /\ entry.axes_operations = <<<<2, "Mean">>, <<0, "Min">>>>
    /\ output.shape = <<1>>

\* C2: reduce_axes does not depend on the order in which the caller lists the
\* pairs: for unique in-range axes, the call with any permutation of the list
\* ends the same way, with a tensor of the same shape and the same elements.
C2_OrderIndependent ==
    (ReduceWellFormed /\ Ended)
    => \A other \in Reorderings(entry.axes_operations) :
          ReduceRun(entry.tensor, other) = Outcome

C2_Witness ==
    /\ Returned
    /\ ReduceWellFormed
    /\ entry.tensor.shape = <<2, 2, 2>>
    /\ entry.axes_operations = <<<<2, "Min">>, <<0, "Min">>>>
    /\ axes_operations = <<<<0, "Min">>, <<2, "Min">>>>

\* C3: for a total permutation p of [0, r), transpose(p) returns a tensor with
\* out_shape[i] = in_shape[p[i]] whose element at (j_0, ..., j_{r-1}) is the
\* input element whose coordinate on axis p[i] is j_i.
C3_Transpose ==
    (/\ op = "transpose" /\ Ended
     /\ Len(args.axes) = Rank(tensor)
     /\ Range(args.axes) = Range(AxesOf(tensor)))
    => /\ Returned
       /\ Len(output.shape) = Rank(tensor)
       /\ \A m \in 1..Rank(tensor) : output.shape[m] = tensor.shape[args.axes[m] + 1]
       /\ \A k \in Offsets(output) :
             LET j == Unravel(k, output.shape)
                 from == [a \in 1..Rank(tensor) |->
                             j[CHOOSE m \in 1..Rank(tensor) : args.axes[m] = a - 1]]
             IN  output.data[k + 1] = At(tensor, from)

C3_Witness ==
    /\ Returned
    /\ op = "transpose"
    /\ tensor.shape = <<1, 2, 2>>
    /\ args.axes = <<2, 0, 1>>
    /\ output.shape = <<2, 1, 2>>

----------------------------------------------------------------------------
(* add_axes: what a well-formed call is, and what it should return *)

Positions(pos2len) == {pos2len[k][1] : k \in 1..Len(pos2len)}

\* distinct positions in [0, target_rank), target_rank = input rank + number of pairs
AddWellFormed ==
    /\ op = "add_axes"
    /\ args.naxes = Rank(tensor) + Len(args.pos2len)
    /\ \A j, k \in 1..Len(args.pos2len) :
          args.pos2len[j][1] = args.pos2len[k][1] => j = k
    /\ \A k \in 1..Len(args.pos2len) : args.pos2len[k][1] < args.naxes

\* the requested length of the axis inserted at position a
LenAt(pos2len, a) == pos2len[CHOOSE k \in 1..Len(pos2len) : pos2len[k][1] = a][2]

\* the shape the call should return: the requested lengths at the listed
\* positions of the final numbering, the input's lengths, in order, elsewhere
ExpectedShape ==
    [k \in 1..args.naxes |->
        IF k - 1 \in Positions(args.pos2len)
        THEN LenAt(args.pos2len, k - 1)
        ELSE tensor.shape[k - Cardinality({a \in Positions(args.pos2len) : a < k - 1})]]

\* C4: for distinct positions in [0, target_rank), given in any order, with
\* target_rank = rank + number of pairs, add_axes returns a tensor of rank
\* target_rank with the requested length at each listed position and the
\* input's axis lengths, unchanged and in order, on the other axes.
C4_AddShape ==
    AddWellFormed
    => /\ ~Panicked
       /\ Returned => output.shape = ExpectedShape

\* C9: for a well-formed add_axes call every element of the output equals the
\* input element at the index obtained by dropping the coordinates of the
\* inserted axes (the input block is tiled along each inserted axis).
C9_AddValues ==
    (AddWellFormed /\ Ended)
    => /\ Returned
       /\ output.shape = ExpectedShape
       /\ \A k \in Offsets(output) :
             output.data[k + 1] =
                At(tensor, Without(Unravel(k, output.shape), Positions(args.pos2len)))

\* the positions are listed in ascending order
Ascending(pos2len) ==
    \A j, k \in 1..Len(pos2len) : j < k => pos2len[j][1] < pos2len[k][1]

\* add_axes on lists in ascending order of position: the shape and the
\* elements are the expected ones
AddAscending ==
    (AddWellFormed /\ Ascending(args.pos2len))
    => /\ ~Panicked
       /\ Returned =>
            /\ output.shape = ExpectedShape
            /\ \A k \in Offsets(output) :
                  output.data[k + 1] =
                     At(tensor, Without(Unravel(k, output.shape), Positions(args.pos2len)))

\* C6: add_axes fails, returning no tensor, whenever input rank + number of
\* pairs differs from target_rank.
C6_RankMismatch ==
    (op = "add_axes" /\ Ended /\ Rank(tensor) + Len(args.pos2len) # args.naxes)
    => Panicked

\* C5: reduce_axes with a list that contains a Prod entry fails with an
\* UnsupportedOperation condition, and the source tensor is unchanged.
C5_ProdUnsupported ==
    (/\ op = "reduce_axes" /\ Ended
     /\ \E k \in 1..Len(entry.axes_operations) : entry.axes_operations[k][2] = "Prod")
    => /\ Panicked
       /\ err = "UnsupportedOperation"
       /\ tensor = entry.tensor

----------------------------------------------------------------------------
\* C7 as stated: after any call, successful or failed, the input tensor and
\* the arguments supplied by the caller are the same as before the call.
C7_NothingMutated ==
    (op # "")
    => /\ tensor = entry.tensor
       /\ args = entry.args
       /\ axes_operations = entry.axes_operations

\* b holds the pairs of a, ascending by axis, pairs of equal axis in the order of a
StablySorted(a, b) ==
    /\ Len(b) = Len(a)
    /\ \A k \in 1..(Len(b) - 1) : Axis(b[k]) <= Axis(b[k + 1])
    /\ \A x \in AxesIn(a) \cup AxesIn(b) :
          LET same(pair) == Axis(pair) = x IN SelectSeq(b, same) = SelectSeq(a, same)

\* C7 (amended): after any call, successful or failed, the input tensor and the
\* arguments passed by value or by shared reference are as before the call;
\* the list passed to reduce_axes by mutable reference is left sorted by axis
\* index (stably), also when the call fails.
C7_OnlyListSorted ==
    (op # "")
    => /\ tensor = entry.tensor
       /\ args = entry.args
       /\ StablySorted(entry.axes_operations, axes_operations)

C7_Witness ==
    /\ Panicked
    /\ op = "reduce_axes"
    /\ entry.axes_operations = <<<<2, "Max">>, <<1, "Sum">>>>
    /\ axes_operations = <<<<1, "Sum">>, <<2, "Max">>>>
    /\ tensor.shape = <<2, 2>>

----------------------------------------------------------------------------
\* C8: the list is sorted ascending and processed in descending axis order;
\* for unique axes in [0, rank), at every iteration the axis about to be
\* reduced is below the current rank of the intermediate tensor, every
\* not-yet-processed index still names the same axis of the original input,
\* and no step fails with an out-of-range axis.
C8_IndicesStayValid ==
    ReduceWellFormed
    => /\ err # "DimOutOfRange"
       /\ \A k \in 1..(Len(axes_operations) - 1) :
             Axis(axes_operations[k]) < Axis(axes_operations[k + 1])
       /\ (pc = "reduce" /\ i < Len(axes_operations)) =>
             LET todo == SubSeq(ProcessingOrder(axes_operations), i + 1, Len(axes_operations))
             IN  /\ Axis(todo[1]) < Rank(output)
                 /\ \A k \in 1..Len(todo) :
                       /\ Axis(todo[k]) < Len(origin)
                       /\ origin[Axis(todo[k]) + 1] = Axis(todo[k])
                 /\ \A k \in 1..(Len(todo) - 1) : Axis(todo[k]) > Axis(todo[k + 1])

C8_Witness ==
    /\ pc = "reduce"
    /\ i = 1
    /\ ReduceWellFormed
    /\ entry.axes_operations = <<<<0, "Max">>, <<2, "Sum">>>>
    /\ tensor.shape = <<2, 2, 2>>
    /\ origin = <<0, 1>>

\* C10: duplicate axis indices are not rejected: for a list that names the
\* same axis k twice (with operations the match implements) on a tensor of
\* rank r >= k + 2, both entries are applied at index k, the call succeeds and
\* removes the input's axes k and k + 1, returning rank r - 2; a call that
\* returns has removed as many axes as the list has entries.
C10_DuplicateAxes ==
    (op = "reduce_axes")
    => /\ Returned => Rank(output) = Rank(tensor) - Len(entry.axes_operations)
       /\ (/\ Len(entry.axes_operations) = 2
           /\ Axis(entry.axes_operations[1]) = Axis(entry.axes_operations[2])
           /\ Axis(entry.axes_operations[1]) + 2 <= Rank(tensor)
           /\ entry.axes_operations[1][2] \in MatchArms
           /\ entry.axes_operations[2][2] \in MatchArms)
          => /\ ~Panicked
             /\ Returned =>
                  /\ Rank(output) = Rank(tensor) - 2
                  /\ origin = Without(AxesOf(tensor),
                                      {Axis(entry.axes_operations[1]),
                                       Axis(entry.axes_operations[1]) + 1})

C10_Witness ==
    /\ Returned
    /\ op = "reduce_axes"
    /\ entry.axes_operations = <<<<1, "Min">>, <<1, "Sum">>>>
    /\ tensor.shape = <<2, 2, 2>>
    /\ origin = <<0>>
    /\ output.shape = <<2>>

====
